---- MODULE Spec2Model ----
(***************************************************************************)
(* Model of the rocRAND tuning benchmark harness                           *)
(* (benchmark/tuning/benchmark_tuning.hpp, benchmarked_generators.hpp):    *)
(*   - generator_benchmark_factory: enumeration and registration of the    *)
(*     benchmark cases of one generator family (SpecReg);                  *)
(*   - run_benchmark: the timed execution of one registered case on the    *)
(*     device (SpecRun).                                                   *)
(***************************************************************************)
EXTENDS Integers, Sequences, FiniteSets, TLC

VARIABLES
    \* ---- registration (generator_benchmark_factory) ----
    family,                      \* GeneratorTemplate the factory is instantiated with
    thread_options,              \* BENCHMARK_TUNING_THREAD_OPTIONS
    block_options,               \* BENCHMARK_TUNING_BLOCK_OPTIONS
    min_benchmarked_grid_size,   \* BENCHMARK_TUNING_MIN_GRID_SIZE
    m_config,                    \* benchmark_config (size of the generated array)
    m_benchmarks,                \* the list the registered cases are appended to
    reg_pc,                      \* next add_benchmarks<T> call of add_all_benchmarks_for_generator
    \* ---- execution (run_benchmark) ----
    pc,                          \* position of the host thread in run_benchmark
    run_T,                       \* template parameter T of the running case
    data,                        \* T* data
    start,                       \* hipEvent_t start
    stop,                        \* hipEvent_t stop
    gen_stream,                  \* stream bound to the generator
    elapsed,                     \* float elapsed (milliseconds)
    iters,                       \* state.iterations()
    live,                        \* device handles (buffers, events) currently allocated
    log,                         \* calls made by the current run, in order, with their status
    runs,                        \* number of runs started
    all_ok                       \* no run so far has been aborted

regvars == <<family, thread_options, block_options, min_benchmarked_grid_size,
             m_config, m_benchmarks, reg_pc>>
runvars == <<pc, run_T, data, start, stop, gen_stream, elapsed, iters, live, log,
             runs, all_ok>>
vars == <<regvars, runvars>>

(***************************************************************************)
(* Bounds of the model.                                                    *)
(***************************************************************************)
MaxOptLen  == 2      \* longest thread/block option list
MaxIters   == 2      \* most measured iterations of one run
MaxRuns    == 2      \* most runs in one behaviour
NumHandles == 4      \* device handles that can be live at once

ThreadValues    == {64, 128}
BlockValues     == {8, 16}
ThresholdValues == {512, 600, 2049}
SizeValues      == {1, 3}
ElapsedValues   == {1000, 2000}
Handles         == 1 .. NumHandles
Undef           == 0     \* value of a local that has not been assigned yet
Families        == {"rocrand_xorwow_template", "other_generator_template"}

Range(s) == {s[i] : i \in DOMAIN s}
SeqsUpTo(S, n) == UNION {[1 .. k -> S] : k \in 0 .. n}

(***************************************************************************)
(* Types, compatibility predicate and distributions.                       *)
(***************************************************************************)
\* The order add_all_benchmarks_for_generator instantiates add_benchmarks<T>:
\* unsigned int, unsigned char, unsigned short, unsigned long long, float, half, double.
OutputTypeOrder == <<"uint", "uchar", "ushort", "ullong", "float", "half", "double">>

is_integral(T) == T \in {"uint", "uchar", "ushort", "ullong"}
is_floating_point(T) == T \in {"float", "double"}

sizeof(T) ==
    CASE T = "uchar" -> 1
      [] T \in {"ushort", "half"} -> 2
      [] T \in {"uint", "float"} -> 4
      [] T \in {"ullong", "double"} -> 8

\* output_type_supported<T, GeneratorTemplate>: true_type by default, false_type only
\* for the specialization <unsigned long long, rocrand_xorwow_template>.
output_type_supported(T, G) ==
    ~(T = "ullong" /\ G = "rocrand_xorwow_template")

\* The distribution types the factory instantiates.
uniform_distribution(T) ==
    [kind |-> "uniform", out |-> T, inp |-> IF T = "ullong" THEN "ullong" ELSE "uint"]
normal_distribution(T) == [kind |-> "normal", out |-> T, inp |-> "none"]
log_normal_distribution(T) == [kind |-> "log_normal", out |-> T, inp |-> "none"]
rocrand_poisson_distribution == [kind |-> "poisson", out |-> "uint", inp |-> "ALIAS"]

\* std::to_string of an unsigned int: its decimal digits.
Digit(d) ==
    CASE d = 0 -> "0" [] d = 1 -> "1" [] d = 2 -> "2" [] d = 3 -> "3" [] d = 4 -> "4"
      [] d = 5 -> "5" [] d = 6 -> "6" [] d = 7 -> "7" [] d = 8 -> "8" [] d = 9 -> "9"
RECURSIVE to_string(_)
to_string(n) == IF n < 10 THEN Digit(n) ELSE to_string(n \div 10) \o Digit(n % 10)

\* engine_name(rng_type): the identifying engine name of the family.
engine_name(G) ==
    IF G = "rocrand_xorwow_template" THEN "xorwow" ELSE "other"

\* distribution_name<Distribution>{}(): the fixed label of one distribution type
\* (the distribution and the type it targets).
type_name(T) == T
distribution_name(D) ==
    CASE D.kind = "poisson" -> "poisson"
      [] D.kind = "uniform" -> "uniform-" \o type_name(D.out)
      [] D.kind = "normal" -> "normal-" \o type_name(D.out)
      [] D.kind = "log_normal" -> "log-normal-" \o type_name(D.out)

(***************************************************************************)
(* Combination enumeration.                                                *)
(***************************************************************************)
\* cpp_utils::numeric_combinations(a, b): the cross product of the two lists, outer
\* iteration over a, inner iteration over b, every pair kept once.
RECURSIVE remove_duplicates(_)
remove_duplicates(s) ==
    IF s = <<>> THEN <<>>
    ELSE LET r == remove_duplicates(SubSeq(s, 1, Len(s) - 1))
             x == s[Len(s)]
         IN IF x \in Range(r) THEN r ELSE Append(r, x)

numeric_combinations(a, b) ==
    remove_duplicates(
        [k \in 1 .. Len(a) * Len(b) |->
            <<a[((k - 1) \div Len(b)) + 1], b[((k - 1) % Len(b)) + 1]>>])

s_param_combinations == numeric_combinations(thread_options, block_options)

(***************************************************************************)
(* generator_benchmark_factory.                                            *)
(***************************************************************************)
get_benchmark_name_noblocks(D, threads, blocks) ==
    engine_name(family) \o "_" \o distribution_name(D) \o "_t" \o to_string(threads)
get_benchmark_name(D, threads, blocks) ==
    engine_name(family) \o "_" \o distribution_name(D) \o "_t" \o to_string(threads)
        \o "_b" \o to_string(blocks)

\* The case registered for one combination: its name and what the closure captures
\* by value (T, GeneratorTemplate<static_config_provider<threads, blocks>>,
\* Distribution, m_config).
RegisteredCase(T, D, threads, blocks) ==
    [name    |-> get_benchmark_name(D, threads, blocks),
     T       |-> T,
     gen     |-> family,
     threads |-> threads,
     blocks  |-> blocks,
     dist    |-> D,
     config  |-> m_config]

\* The body of the lambda of add_benchmarks_impl for one combination index:
\* nothing when the grid is smaller than min_benchmarked_grid_size, else one case.
combination_case_strict(T, D, idx) ==
    LET threads   == s_param_combinations[idx][1]
        blocks    == s_param_combinations[idx][2]
        grid_size == threads * blocks
    IN IF grid_size <= min_benchmarked_grid_size
       THEN <<>>
       ELSE <<RegisteredCase(T, D, threads, blocks)>>
combination_case(T, D, idx) ==
    LET threads   == s_param_combinations[idx][1]
        blocks    == s_param_combinations[idx][2]
        grid_size == threads * blocks
    IN IF grid_size < min_benchmarked_grid_size
       THEN <<>>
       ELSE <<RegisteredCase(T, D, threads, blocks)>>

\* add_benchmarks_impl<T, Distribution>(): the fold over all combination indices,
\* in index order; the result is what is pushed back onto m_benchmarks.
RECURSIVE add_benchmarks_impl_upto(_, _, _)
add_benchmarks_impl_upto(T, D, n) ==
    IF n = 0 THEN <<>>
    ELSE add_benchmarks_impl_upto(T, D, n - 1) \o combination_case(T, D, n)

add_benchmarks_impl(T, D) ==
    add_benchmarks_impl_upto(T, D, Len(s_param_combinations))

\* add_benchmarks<T>(): the cases it appends.
add_benchmarks_poisson_everywhere(T) ==
    IF ~output_type_supported(T, family) THEN <<>>
    ELSE IF is_integral(T)
    THEN add_benchmarks_impl(T, uniform_distribution(T))
            \o add_benchmarks_impl(T, rocrand_poisson_distribution)
    ELSE IF is_floating_point(T) \/ T = "half"
    THEN add_benchmarks_impl(T, uniform_distribution(T))
            \o add_benchmarks_impl(T, normal_distribution(T))
            \o add_benchmarks_impl(T, log_normal_distribution(T))
    ELSE <<>>
add_benchmarks_no_half(T) ==
    IF ~output_type_supported(T, family) THEN <<>>
    ELSE IF is_integral(T)
    THEN add_benchmarks_impl(T, uniform_distribution(T))
            \o (IF T = "uint"
                THEN add_benchmarks_impl(T, rocrand_poisson_distribution)
                ELSE <<>>)
    ELSE IF is_floating_point(T)
    THEN add_benchmarks_impl(T, uniform_distribution(T))
            \o add_benchmarks_impl(T, normal_distribution(T))
            \o add_benchmarks_impl(T, log_normal_distribution(T))
    ELSE <<>>
add_benchmarks_unchecked(T) ==
    IF is_integral(T)
    THEN add_benchmarks_impl(T, uniform_distribution(T))
            \o (IF T = "uint"
                THEN add_benchmarks_impl(T, rocrand_poisson_distribution)
                ELSE <<>>)
    ELSE IF is_floating_point(T) \/ T = "half"
    THEN add_benchmarks_impl(T, uniform_distribution(T))
            \o add_benchmarks_impl(T, normal_distribution(T))
            \o add_benchmarks_impl(T, log_normal_distribution(T))
    ELSE <<>>
add_benchmarks(T) ==
    IF ~output_type_supported(T, family) THEN <<>>
    ELSE IF is_integral(T)
    THEN add_benchmarks_impl(T, uniform_distribution(T))
            \o (IF T = "uint"
                THEN add_benchmarks_impl(T, rocrand_poisson_distribution)
                ELSE <<>>)
    ELSE IF is_floating_point(T) \/ T = "half"
    THEN add_benchmarks_impl(T, uniform_distribution(T))
            \o add_benchmarks_impl(T, normal_distribution(T))
            \o add_benchmarks_impl(T, log_normal_distribution(T))
    ELSE <<>>

\* One step of add_all_benchmarks_for_generator: the next add_benchmarks<T>() call.
add_all_benchmarks_for_generator ==
    /\ reg_pc <= Len(OutputTypeOrder)
    /\ m_benchmarks' = m_benchmarks \o add_benchmarks(OutputTypeOrder[reg_pc])
    /\ reg_pc' = reg_pc + 1
    /\ UNCHANGED <<family, thread_options, block_options, min_benchmarked_grid_size,
                   m_config, runvars>>

RunIdle ==
    /\ pc = "idle" /\ run_T = "none" /\ data = Undef /\ start = Undef /\ stop = Undef
    /\ gen_stream = "unset" /\ elapsed = 0 /\ iters = 0 /\ live = {} /\ log = <<>>
    /\ runs = 0 /\ all_ok = TRUE

InitReg ==
    /\ family \in Families
    /\ thread_options \in SeqsUpTo(ThreadValues, MaxOptLen)
    /\ block_options \in SeqsUpTo(BlockValues, MaxOptLen)
    /\ min_benchmarked_grid_size \in ThresholdValues
    /\ m_config \in [size : SizeValues]
    /\ m_benchmarks = <<>>
    /\ reg_pc = 1
    /\ RunIdle

NextReg == add_all_benchmarks_for_generator

SpecReg == InitReg /\ [][NextReg]_vars

(***************************************************************************)
(* run_benchmark: one registered closure executed by the benchmark library.*)
(***************************************************************************)
Status == {"ok", "err"}

\* HIP_CHECK / ROCRAND_CHECK: a non-success status ends the run at once and is
\* surfaced to the caller; success continues with the next statement.
HIP_CHECK(st, next) == IF st = "ok" THEN next ELSE "aborted"
ROCRAND_CHECK(st, next) == IF st = "ok" THEN next ELSE "aborted"

\* One call of the run, as recorded in its history.
Call(op, a, b, st) == [op |-> op, a |-> a, b |-> b, st |-> st]

\* The handle a successful allocation returns: one that is not live (the least one:
\* handles are interchangeable).
Fresh == CHOOSE h \in Handles \ live : \A g \in Handles \ live : h <= g

\* The result of add_all_benchmarks_for_generator: every add_benchmarks<T>() call, in order.
RECURSIVE registered_upto(_)
registered_upto(n) ==
    IF n = 0 THEN <<>>
    ELSE registered_upto(n - 1) \o add_benchmarks(OutputTypeOrder[n])

\* The benchmark library invokes a registered closure: run_benchmark<T, Generator,
\* Distribution>(state, m_config) starts with fresh locals.
run_benchmark ==
    /\ pc \in {"idle", "done", "aborted"}
    /\ runs < MaxRuns
    /\ \E i \in DOMAIN m_benchmarks : run_T' = m_benchmarks[i].T
    /\ pc' = "hipMalloc"
    /\ data' = Undef /\ start' = Undef /\ stop' = Undef
    /\ gen_stream' = "unset" /\ elapsed' = 0 /\ iters' = 0
    /\ log' = <<>>
    /\ runs' = runs + 1
    /\ UNCHANGED <<live, all_ok, regvars>>

\* HIP_CHECK(hipMalloc(&data, config.size * sizeof(T)));
hipMalloc ==
    /\ pc = "hipMalloc"
    /\ \E st \in Status :
        /\ st = "ok" => Handles \ live # {}
        /\ data' = IF st = "ok" THEN Fresh ELSE data
        /\ live' = IF st = "ok" THEN live \cup {Fresh} ELSE live
        /\ log' = Append(log, Call("hipMalloc", IF st = "ok" THEN Fresh ELSE Undef,
                                   m_config.size * sizeof(run_T), st))
        /\ pc' = HIP_CHECK(st, "set_stream")
        /\ all_ok' = (all_ok /\ st = "ok")
    /\ UNCHANGED <<run_T, start, stop, gen_stream, elapsed, iters, runs, regvars>>

\* Generator generator; generator.set_stream(stream);   (stream = 0)
set_stream ==
    /\ pc = "set_stream"
    /\ gen_stream' = "stream0"
    /\ log' = Append(log, Call("set_stream", Undef, 0, "ok"))
    /\ pc' = "warmup"
    /\ UNCHANGED <<run_T, data, start, stop, elapsed, iters, live, runs, all_ok, regvars>>

\* generate_func(): generator.generate(data, config.size, ...) on the bound stream.
\* Warm-up: ROCRAND_CHECK(generate_func());
warmup_generate_unchecked ==
    /\ pc = "warmup"
    /\ \E st \in Status :
        /\ log' = Append(log, Call("generate", data, m_config.size, st))
        /\ pc' = "hipDeviceSynchronize"
        /\ all_ok' = (all_ok /\ st = "ok")
    /\ UNCHANGED <<run_T, data, start, stop, gen_stream, elapsed, iters, live, runs,
                   regvars>>
warmup_generate_no_sync ==
    /\ pc = "warmup"
    /\ \E st \in Status :
        /\ log' = Append(log, Call("generate", data, m_config.size, st))
        /\ pc' = ROCRAND_CHECK(st, "create_start")
        /\ all_ok' = (all_ok /\ st = "ok")
    /\ UNCHANGED <<run_T, data, start, stop, gen_stream, elapsed, iters, live, runs,
                   regvars>>
warmup_generate ==
    /\ pc = "warmup"
    /\ \E st \in Status :
        /\ log' = Append(log, Call("generate", data, m_config.size, st))
        /\ pc' = ROCRAND_CHECK(st, "hipDeviceSynchronize")
        /\ all_ok' = (all_ok /\ st = "ok")
    /\ UNCHANGED <<run_T, data, start, stop, gen_stream, elapsed, iters, live, runs,
                   regvars>>

\* HIP_CHECK(hipDeviceSynchronize());
hipDeviceSynchronize ==
    /\ pc = "hipDeviceSynchronize"
    /\ \E st \in Status :
        /\ log' = Append(log, Call("hipDeviceSynchronize", Undef, 0, st))
        /\ pc' = HIP_CHECK(st, "create_start")
        /\ all_ok' = (all_ok /\ st = "ok")
    /\ UNCHANGED <<run_T, data, start, stop, gen_stream, elapsed, iters, live, runs,
                   regvars>>

\* HIP_CHECK(hipEventCreate(&start));
hipEventCreate_start ==
    /\ pc = "create_start"
    /\ \E st \in Status :
        /\ st = "ok" => Handles \ live # {}
        /\ start' = IF st = "ok" THEN Fresh ELSE start
        /\ live' = IF st = "ok" THEN live \cup {Fresh} ELSE live
        /\ log' = Append(log, Call("hipEventCreate", IF st = "ok" THEN Fresh ELSE Undef,
                                   0, st))
        /\ pc' = HIP_CHECK(st, "create_stop")
        /\ all_ok' = (all_ok /\ st = "ok")
    /\ UNCHANGED <<run_T, data, stop, gen_stream, elapsed, iters, runs, regvars>>

\* HIP_CHECK(hipEventCreate(&stop));
hipEventCreate_stop ==
    /\ pc = "create_stop"
    /\ \E st \in Status :
        /\ st = "ok" => Handles \ live # {}
        /\ stop' = IF st = "ok" THEN Fresh ELSE stop
        /\ live' = IF st = "ok" THEN live \cup {Fresh} ELSE live
        /\ log' = Append(log, Call("hipEventCreate", IF st = "ok" THEN Fresh ELSE Undef,
                                   0, st))
        /\ pc' = HIP_CHECK(st, "loop")
        /\ all_ok' = (all_ok /\ st = "ok")
    /\ UNCHANGED <<run_T, data, start, gen_stream, elapsed, iters, runs, regvars>>

\* for(auto _ : state): the benchmark library asks for one more measured iteration.
loop_next ==
    /\ pc = "loop"
    /\ iters < MaxIters
    /\ pc' = "record_start"
    /\ UNCHANGED <<run_T, data, start, stop, gen_stream, elapsed, iters, live, log, runs,
                   all_ok, regvars>>

\* for(auto _ : state): the benchmark library ends the measurement (after one
\* iteration or more).
loop_exit ==
    /\ pc = "loop"
    /\ iters >= 1
    /\ pc' = "SetBytesProcessed"
    /\ UNCHANGED <<run_T, data, start, stop, gen_stream, elapsed, iters, live, log, runs,
                   all_ok, regvars>>

\* HIP_CHECK(hipEventRecord(start, stream));
hipEventRecord_start ==
    /\ pc = "record_start"
    /\ \E st \in Status :
        /\ log' = Append(log, Call("hipEventRecord", start, 0, st))
        /\ pc' = HIP_CHECK(st, "generate")
        /\ all_ok' = (all_ok /\ st = "ok")
    /\ UNCHANGED <<run_T, data, start, stop, gen_stream, elapsed, iters, live, runs,
                   regvars>>

\* ROCRAND_CHECK(generate_func());   (inside the measured loop)
timed_generate ==
    /\ pc = "generate"
    /\ \E st \in Status :
        /\ log' = Append(log, Call("generate", data, m_config.size, st))
        /\ pc' = ROCRAND_CHECK(st, "record_stop")
        /\ all_ok' = (all_ok /\ st = "ok")
    /\ UNCHANGED <<run_T, data, start, stop, gen_stream, elapsed, iters, live, runs,
                   regvars>>

\* HIP_CHECK(hipEventRecord(stop, stream));
hipEventRecord_stop_no_wait ==
    /\ pc = "record_stop"
    /\ \E st \in Status :
        /\ log' = Append(log, Call("hipEventRecord", stop, 0, st))
        /\ pc' = HIP_CHECK(st, "hipEventElapsedTime")
        /\ all_ok' = (all_ok /\ st = "ok")
    /\ UNCHANGED <<run_T, data, start, stop, gen_stream, elapsed, iters, live, runs,
                   regvars>>
hipEventRecord_stop ==
    /\ pc = "record_stop"
    /\ \E st \in Status :
        /\ log' = Append(log, Call("hipEventRecord", stop, 0, st))
        /\ pc' = HIP_CHECK(st, "hipEventSynchronize")
        /\ all_ok' = (all_ok /\ st = "ok")
    /\ UNCHANGED <<run_T, data, start, stop, gen_stream, elapsed, iters, live, runs,
                   regvars>>

\* HIP_CHECK(hipEventSynchronize(stop));
hipEventSynchronize ==
    /\ pc = "hipEventSynchronize"
    /\ \E st \in Status :
        /\ log' = Append(log, Call("hipEventSynchronize", stop, 0, st))
        /\ pc' = HIP_CHECK(st, "hipEventElapsedTime")
        /\ all_ok' = (all_ok /\ st = "ok")
    /\ UNCHANGED <<run_T, data, start, stop, gen_stream, elapsed, iters, live, runs,
                   regvars>>

\* float elapsed = 0.0f; HIP_CHECK(hipEventElapsedTime(&elapsed, start, stop));
hipEventElapsedTime ==
    /\ pc = "hipEventElapsedTime"
    /\ \E st \in Status :
        /\ \E ms \in ElapsedValues :
             elapsed' = IF st = "ok" THEN ms ELSE 0
        /\ log' = Append(log, Call("hipEventElapsedTime", start, stop, st))
        /\ pc' = HIP_CHECK(st, "SetIterationTime")
        /\ all_ok' = (all_ok /\ st = "ok")
    /\ UNCHANGED <<run_T, data, start, stop, gen_stream, iters, live, runs, regvars>>

\* state.SetIterationTime(elapsed / 1000.f);   and the end of the loop body
SetIterationTime ==
    /\ pc = "SetIterationTime"
    /\ log' = Append(log, Call("SetIterationTime", elapsed \div 1000, 0, "ok"))
    /\ iters' = iters + 1
    /\ pc' = "loop"
    /\ UNCHANGED <<run_T, data, start, stop, gen_stream, elapsed, live, runs, all_ok,
                   regvars>>

\* state.SetBytesProcessed(state.iterations() * config.size * sizeof(T));
SetBytesProcessed ==
    /\ pc = "SetBytesProcessed"
    /\ log' = Append(log, Call("SetBytesProcessed",
                               iters * m_config.size * sizeof(run_T), 0, "ok"))
    /\ pc' = "SetItemsProcessed"
    /\ UNCHANGED <<run_T, data, start, stop, gen_stream, elapsed, iters, live, runs,
                   all_ok, regvars>>

\* state.SetItemsProcessed(state.iterations() * config.size);
SetItemsProcessed ==
    /\ pc = "SetItemsProcessed"
    /\ log' = Append(log, Call("SetItemsProcessed", iters * m_config.size, 0, "ok"))
    /\ pc' = "destroy_stop"
    /\ UNCHANGED <<run_T, data, start, stop, gen_stream, elapsed, iters, live, runs,
                   all_ok, regvars>>

\* HIP_CHECK(hipEventDestroy(stop));
hipEventDestroy_stop ==
    /\ pc = "destroy_stop"
    /\ \E st \in Status :
        /\ live' = IF st = "ok" THEN live \ {stop} ELSE live
        /\ log' = Append(log, Call("hipEventDestroy", stop, 0, st))
        /\ pc' = HIP_CHECK(st, "destroy_start")
        /\ all_ok' = (all_ok /\ st = "ok")
    /\ UNCHANGED <<run_T, data, start, stop, gen_stream, elapsed, iters, runs, regvars>>

\* HIP_CHECK(hipEventDestroy(start));
hipEventDestroy_start_no_free ==
    /\ pc = "destroy_start"
    /\ \E st \in Status :
        /\ live' = IF st = "ok" THEN live \ {start} ELSE live
        /\ log' = Append(log, Call("hipEventDestroy", start, 0, st))
        /\ pc' = HIP_CHECK(st, "done")
        /\ all_ok' = (all_ok /\ st = "ok")
    /\ UNCHANGED <<run_T, data, start, stop, gen_stream, elapsed, iters, runs, regvars>>
hipEventDestroy_start ==
    /\ pc = "destroy_start"
    /\ \E st \in Status :
        /\ live' = IF st = "ok" THEN live \ {start} ELSE live
        /\ log' = Append(log, Call("hipEventDestroy", start, 0, st))
        /\ pc' = HIP_CHECK(st, "hipFree")
        /\ all_ok' = (all_ok /\ st = "ok")
    /\ UNCHANGED <<run_T, data, start, stop, gen_stream, elapsed, iters, runs, regvars>>

\* HIP_CHECK(hipFree(data));   and the return of run_benchmark
hipFree ==
    /\ pc = "hipFree"
    /\ \E st \in Status :
        /\ live' = IF st = "ok" THEN live \ {data} ELSE live
        /\ log' = Append(log, Call("hipFree", data, 0, st))
        /\ pc' = HIP_CHECK(st, "done")
        /\ all_ok' = (all_ok /\ st = "ok")
    /\ UNCHANGED <<run_T, data, start, stop, gen_stream, elapsed, iters, runs, regvars>>

\* The state the benchmark library runs the registered closures from: the factory has
\* registered every case of one family for the tuning options of the build.
InitRun ==
    /\ family \in Families
    /\ thread_options = <<64, 128>>
    /\ block_options = <<8>>
    /\ min_benchmarked_grid_size = 512
    /\ m_config \in [size : SizeValues]
    /\ m_benchmarks = registered_upto(Len(OutputTypeOrder))
    /\ reg_pc = Len(OutputTypeOrder) + 1
    /\ RunIdle

NextRun ==
    \/ run_benchmark
    \/ hipMalloc
    \/ set_stream
    \/ warmup_generate
    \/ hipDeviceSynchronize
    \/ hipEventCreate_start
    \/ hipEventCreate_stop
    \/ loop_next
    \/ loop_exit
    \/ hipEventRecord_start
    \/ timed_generate
    \/ hipEventRecord_stop
    \/ hipEventSynchronize
    \/ hipEventElapsedTime
    \/ SetIterationTime
    \/ SetBytesProcessed
    \/ SetItemsProcessed
    \/ hipEventDestroy_stop
    \/ hipEventDestroy_start
    \/ hipFree

SpecRun == InitRun /\ [][NextRun]_vars

(***************************************************************************)
(* Properties of run_benchmark.                                            *)
(***************************************************************************)
Idx == DOMAIN log
IsCall(i, op) == i \in Idx /\ log[i].op = op
OkCall(i, op) == IsCall(i, op) /\ log[i].st = "ok"
AcquireOps == {"hipMalloc", "hipEventCreate"}
ReleaseOps == {"hipFree", "hipEventDestroy"}
\* The handles the current run has acquired.
Acquired == {log[i].a : i \in {j \in Idx : log[j].op \in AcquireOps /\ log[j].st = "ok"}}
\* The handles call i works on.
HandlesUsed(i) ==
    CASE log[i].op \in {"generate", "hipEventRecord", "hipEventSynchronize",
                        "hipEventDestroy", "hipFree"} -> {log[i].a}
      [] log[i].op = "hipEventElapsedTime" -> {log[i].a, log[i].b}
      [] OTHER -> {}
\* Handle h was acquired by the current run before call i and not released since.
OwnedAt(h, i) ==
    \E j \in 1 .. (i - 1) :
        /\ log[j].op \in AcquireOps /\ log[j].st = "ok" /\ log[j].a = h
        /\ \A k \in (j + 1) .. (i - 1) :
              ~(log[k].op \in ReleaseOps /\ log[k].st = "ok" /\ log[k].a = h)
Count(op) == Cardinality({i \in Idx : log[i].op = op})
Finished == pc \in {"done", "aborted"}

\* C1: on every exit path of run_benchmark, normal or failing, every resource the run
\* acquired (the device buffer, the start and stop events) has been released.
C1_ReleasedOnEveryExit ==
    Finished => Acquired \cap live = {}

\* C2: the first non-success status aborts the run at that step: no later call of the
\* run is made (no generate, no event record, no retry) and nothing (iteration time,
\* bytes, items) is reported after it.
C2_AbortAtFirstFailure ==
    /\ \A i \in Idx : log[i].st = "err" => (i = Len(log) /\ pc = "aborted")
    /\ pc = "aborted" => (log # <<>> /\ log[Len(log)].st = "err")
\* A run aborted in its second measured iteration, after one duration was reported.
C2_Witness ==
    /\ pc = "aborted"
    /\ Count("SetIterationTime") = 1
    /\ Count("SetBytesProcessed") = 0
    /\ IsCall(Len(log), "generate")

\* A generate call lies in a measurement: the last event record before it is a
\* successful record of start.
AfterStartRecord(i) ==
    \E j \in 1 .. (i - 1) :
        /\ OkCall(j, "hipEventRecord") /\ log[j].a = start
        /\ \A k \in (j + 1) .. (i - 1) : log[k].op \notin {"hipEventRecord", "generate"}
GenerateCalls == {i \in Idx : log[i].op = "generate"}
Untimed == {i \in GenerateCalls : ~AfterStartRecord(i)}
PastWarmup ==
    pc \notin {"idle", "hipMalloc", "set_stream", "warmup", "aborted"}

\* C8: exactly one generate call of a run (the warm-up) is outside every start/stop
\* pair; it and a device synchronization complete before the first start record; every
\* other generate call lies between a start record and a stop record.
C8_WarmupUntimed ==
    /\ Cardinality(Untimed) <= 1
    /\ (PastWarmup \/ Count("hipEventRecord") > 0) => Cardinality(Untimed) = 1
    /\ \A w \in Untimed : \A i \in GenerateCalls : w <= i
    /\ \A r \in Idx : log[r].op = "hipEventRecord" =>
          \E w \in Untimed : \E d \in (w + 1) .. (r - 1) :
              /\ log[w].st = "ok"
              /\ OkCall(d, "hipDeviceSynchronize")
    /\ \A g \in GenerateCalls \ Untimed :
          (g < Len(log) \/ pc = "record_stop") =>
              /\ log[g].st = "ok"
              /\ g < Len(log) => (IsCall(g + 1, "hipEventRecord") /\ log[g + 1].a = stop)
    /\ pc = "done" =>
          \A g \in GenerateCalls \ Untimed : OkCall(g + 1, "hipEventRecord")
\* A run that has measured two iterations and returned.
C8_Witness ==
    /\ pc = "done"
    /\ Cardinality(GenerateCalls) = 3
    /\ Cardinality(Untimed) = 1

\* C9: over successful runs, each run allocates its own buffer and its own two events,
\* works on those only, and has released them all when it returns: nothing is
\* outstanding between runs.
C9_RunsIndependent ==
    /\ \A i \in Idx : \A h \in HandlesUsed(i) : OwnedAt(h, i)
    /\ all_ok =>
          /\ live \subseteq Acquired
          /\ pc \in {"idle", "done"} => live = {}
          /\ pc = "done" =>
                /\ Count("hipMalloc") = 1
                /\ Count("hipEventCreate") = 2
                /\ Cardinality(Acquired) = 3
\* The second of two successful runs has returned.
C9_Witness ==
    /\ runs = 2
    /\ all_ok
    /\ pc = "done"
    /\ Count("hipFree") = 1

\* The calls of one measured iteration, in order.
IterationOps ==
    <<"hipEventRecord", "generate", "hipEventRecord", "hipEventSynchronize",
      "hipEventElapsedTime", "SetIterationTime">>
IterationArg(k) ==
    CASE k = 1 -> start [] k = 2 -> data [] k = 3 -> stop [] k = 4 -> stop
      [] k = 5 -> start [] OTHER -> Undef
\* The index of the last call before the measured loop (the creation of stop), or
\* past the end of the history when the run has not created both events.
LoopBase ==
    IF Cardinality({c \in Idx : OkCall(c, "hipEventCreate")}) = 2
    THEN CHOOSE c \in Idx :
            OkCall(c, "hipEventCreate") /\ \E b \in 1 .. (c - 1) : OkCall(b, "hipEventCreate")
    ELSE Len(log) + 1
InLoop(i) ==
    /\ i > LoopBase
    /\ \A j \in 1 .. i : log[j].op # "SetBytesProcessed"

\* C10: every measured iteration is, in this order: record start, generate, record
\* stop, wait for stop, read the elapsed time between start and stop, report it; the
\* elapsed time is never read before the wait on stop has completed, and one duration
\* is reported per iteration.
C10_IterationOrder ==
    /\ \A i \in Idx : InLoop(i) =>
          LET k == ((i - LoopBase - 1) % Len(IterationOps)) + 1
          IN /\ log[i].op = IterationOps[k]
             /\ k <= 5 => log[i].a = IterationArg(k)
             /\ k = 5 => log[i].b = stop
    /\ \A i \in Idx : log[i].op \in Range(IterationOps) =>
          (InLoop(i) \/ (i < LoopBase /\ log[i].op = "generate"))
    /\ \A i \in Idx : IsCall(i, "hipEventElapsedTime") =>
          /\ OkCall(i - 1, "hipEventSynchronize")
          /\ log[i - 1].a = log[i].b
    /\ Count("SetIterationTime") = iters
    /\ pc \in {"loop", "SetBytesProcessed", "SetItemsProcessed", "destroy_stop",
               "destroy_start", "hipFree", "done"} =>
          Cardinality({i \in Idx : IsCall(i, "hipEventRecord") /\ log[i].a = start})
              = iters
\* Two measured iterations have completed.
C10_Witness ==
    /\ pc = "loop"
    /\ iters = 2
    /\ Count("hipEventElapsedTime") = 2

(***************************************************************************)
(* Properties of the registration.                                         *)
(***************************************************************************)
OutputTypes == Range(OutputTypeOrder)
\* add_benchmarks<T>() has been called.
Processed(T) == \E k \in 1 .. (reg_pc - 1) : OutputTypeOrder[k] = T
\* The launch shapes the options and the threshold admit.
ValidShapes ==
    {s \in Range(thread_options) \X Range(block_options) :
        s[1] * s[2] >= min_benchmarked_grid_size}
CasesOf(T) == {i \in DOMAIN m_benchmarks : m_benchmarks[i].T = T}
CasesOfDist(T, kind) ==
    {i \in CasesOf(T) : m_benchmarks[i].dist.kind = kind}
CasesAt(T, kind, s) ==
    {i \in CasesOfDist(T, kind) :
        <<m_benchmarks[i].threads, m_benchmarks[i].blocks>> = s}
OncePerShape(T, kind) ==
    /\ \A s \in ValidShapes : Cardinality(CasesAt(T, kind, s)) = 1
    /\ Cardinality(CasesOfDist(T, kind)) = Cardinality(ValidShapes)
FirstIndex(seq, x) == CHOOSE i \in DOMAIN seq : seq[i] = x /\ \A j \in 1 .. (i - 1) : seq[j] # x

\* C3: once add_all_benchmarks_for_generator has processed all seven output types, no
\* two registered cases of the family have the same name string
\* <engineName>_<distributionName>_t<threads>_b<blocks>.
C3_UniqueNames ==
    reg_pc > Len(OutputTypeOrder) =>
        \A i, j \in DOMAIN m_benchmarks :
            i # j => m_benchmarks[i].name # m_benchmarks[j].name
\* Several output types and several shapes with the same thread count are registered.
C3_Witness ==
    /\ reg_pc > Len(OutputTypeOrder)
    /\ \E i, j \in DOMAIN m_benchmarks :
          /\ m_benchmarks[i].T # m_benchmarks[j].T
          /\ m_benchmarks[i].dist.kind = m_benchmarks[j].dist.kind
          /\ m_benchmarks[i].threads = m_benchmarks[j].threads
          /\ m_benchmarks[i].blocks = m_benchmarks[j].blocks
    /\ \E i, j \in DOMAIN m_benchmarks :
          /\ m_benchmarks[i].threads = m_benchmarks[j].threads
          /\ m_benchmarks[i].blocks # m_benchmarks[j].blocks
    /\ m_benchmarks[1].name = "xorwow_uniform-uint_t64_b8"

\* C4: when output_type_supported<T, GeneratorTemplate> is false (unsigned long long on
\* xorwow), add_benchmarks<T>() registers nothing and leaves the benchmark list
\* unchanged; for every other pair the predicate is true.
C4_UnsupportedSkipped ==
    /\ [](\A T \in OutputTypes, G \in Families :
            output_type_supported(T, G) <=>
                <<T, G>> # <<"ullong", "rocrand_xorwow_template">>)
    /\ [][(/\ reg_pc <= Len(OutputTypeOrder)
           /\ OutputTypeOrder[reg_pc] = "ullong"
           /\ family = "rocrand_xorwow_template")
              => m_benchmarks' = m_benchmarks]_vars
    /\ [](Processed("ullong") /\ family = "rocrand_xorwow_template"
            => CasesOf("ullong") = {})
\* unsigned long long has been processed for xorwow with a non-empty combination set.
C4_Witness ==
    /\ family = "rocrand_xorwow_template"
    /\ Processed("ullong")
    /\ ValidShapes # {}
    /\ CasesOf("ushort") # {}

\* C5: on a compatible family, unsigned int gets uniform and alias-Poisson, each exactly
\* once per launch shape; every other integer type gets uniform only, once per launch
\* shape, and never Poisson.
C5_IntegerDistributions ==
    /\ (Processed("uint") /\ output_type_supported("uint", family)) =>
          /\ OncePerShape("uint", "uniform")
          /\ OncePerShape("uint", "poisson")
          /\ Cardinality(CasesOf("uint")) = 2 * Cardinality(ValidShapes)
    /\ \A T \in {"uchar", "ushort", "ullong"} :
          (Processed(T) /\ output_type_supported(T, family)) =>
              /\ OncePerShape(T, "uniform")
              /\ Cardinality(CasesOf(T)) = Cardinality(ValidShapes)
              /\ CasesOfDist(T, "poisson") = {}
    /\ \A i \in DOMAIN m_benchmarks :
          m_benchmarks[i].dist.kind = "poisson" => m_benchmarks[i].T = "uint"
\* All integer types have been processed on a family supporting all of them, with two
\* or more launch shapes.
C5_Witness ==
    /\ Processed("ullong")
    /\ output_type_supported("ullong", family)
    /\ Cardinality(ValidShapes) >= 2
    /\ Cardinality(CasesOfDist("uint", "poisson")) >= 2
    /\ CasesOf("ullong") # {}

\* C6: on a compatible family, every floating-point output type (float, double, half)
\* gets exactly 3 x |combination set| cases: uniform, normal and log-normal, each once
\* per launch shape.
C6_FloatingDistributions ==
    \A T \in {"float", "half", "double"} :
        (Processed(T) /\ output_type_supported(T, family)) =>
            /\ OncePerShape(T, "uniform")
            /\ OncePerShape(T, "normal")
            /\ OncePerShape(T, "log_normal")
            /\ Cardinality(CasesOf(T)) = 3 * Cardinality(ValidShapes)
\* All three floating-point types have been processed with two or more launch shapes.
C6_Witness ==
    /\ Processed("double")
    /\ Cardinality(ValidShapes) >= 2
    /\ Cardinality(CasesOf("half")) = 3 * Cardinality(ValidShapes)
    /\ Cardinality(CasesOf("double")) >= 6

\* C7: the launch shapes a distribution's cases are registered for are exactly the
\* pairs of the cross product of the option lists with threads x blocks >= threshold
\* (a grid equal to the threshold is kept), in the order of the outer iteration over
\* the thread list and the inner iteration over the block list; empty lists give no case.
C7_CombinationSet ==
    \A T \in OutputTypes :
        \A kind \in {m_benchmarks[i].dist.kind : i \in CasesOf(T)} \cup
                     (IF Processed(T) /\ output_type_supported(T, family)
                      THEN {"uniform"} ELSE {}) :
            /\ {<<m_benchmarks[i].threads, m_benchmarks[i].blocks>> :
                    i \in CasesOfDist(T, kind)} = ValidShapes
            /\ \A i, j \in CasesOfDist(T, kind) :
                  i < j =>
                    LET ti == FirstIndex(thread_options, m_benchmarks[i].threads)
                        tj == FirstIndex(thread_options, m_benchmarks[j].threads)
                        bi == FirstIndex(block_options, m_benchmarks[i].blocks)
                        bj == FirstIndex(block_options, m_benchmarks[j].blocks)
                    IN ti < tj \/ (ti = tj /\ bi < bj)
            /\ (thread_options = <<>> \/ block_options = <<>>) =>
                  CasesOfDist(T, kind) = {}
\* The scenario of two thread options, threshold 512: (64, 8) has a grid equal to the
\* threshold and is registered, first; a smaller threshold-failing pair exists too.
C7_Witness ==
    /\ reg_pc > 1
    /\ thread_options = <<64, 128>>
    /\ block_options = <<8>>
    /\ min_benchmarked_grid_size = 512
    /\ Len(m_benchmarks) >= 2
    /\ <<m_benchmarks[1].threads, m_benchmarks[1].blocks>> = <<64, 8>>
    /\ <<m_benchmarks[2].threads, m_benchmarks[2].blocks>> = <<128, 8>>
\* The scenario with threshold 600: only (128, 8) is registered.
C7_WitnessExcluded ==
    /\ reg_pc > 1
    /\ thread_options = <<64, 128>>
    /\ block_options = <<8>>
    /\ min_benchmarked_grid_size = 600
    /\ {<<m_benchmarks[i].threads, m_benchmarks[i].blocks>> :
            i \in DOMAIN m_benchmarks} = {<<128, 8>>}

====
